---- MODULE Spec2Model ----
(***************************************************************************)
(* Model of hardware-offboarding-automation.py: main() and the helpers it  *)
(* calls.  A Python string is a sequence of tokens (a token is one         *)
(* character, or an indivisible word such as a header label or a file      *)
(* extension); the blank is the token " ".  A csv file is the sequence of  *)
(* its lines, a line the sequence of its cells.                            *)
(***************************************************************************)
EXTENDS Integers, Sequences, FiniteSets, TLC

\* ------------------------------------------------------------------ bounds
MaxInputRows == 3      \* data rows of the input csv
MaxRows == 2           \* asset rows the query returns for one employee

\* ----------------------------------------------------------------- strings
EmptyStr == <<>>
None == <<"<None>">>
\* the content of a path that names no file (no csv line has this cell)
NoFile == << << <<"<absent>">> >> >>

RECURSIVE lstrip(_)
lstrip(s) == IF s # <<>> /\ Head(s) = " " THEN lstrip(Tail(s)) ELSE s

RECURSIVE rstrip(_)
rstrip(s) ==
    IF s # <<>> /\ s[Len(s)] = " " THEN rstrip(SubSeq(s, 1, Len(s) - 1)) ELSE s

strip(s) == rstrip(lstrip(s))

\* str.replace for single-token patterns
replace(s, old, new) == [k \in 1..Len(s) |-> IF s[k] = old THEN new ELSE s[k]]

\* str.replace(old, "")
delete(s, old) == SelectSeq(s, LAMBDA c : c # old)

lowerChar(c) == IF c = "A" THEN "a" ELSE c

lower(s) == [k \in 1..Len(s) |-> lowerChar(s[k])]

RECURSIVE Flatten(_)
Flatten(ss) == IF ss = <<>> THEN <<>> ELSE Head(ss) \o Flatten(Tail(ss))

\* ------------------------------------------------------------------ config
INPUT_EMPLOYEES_CSV == <<"employeesInput", ".csv">>
COMBINED_OUTPUT_PATH == <<"hardwareOutput", ".csv">>
OUTPUT_DIR == <<"out">>
RECIPIENT_DOMAIN == <<"example", ".", "com">>

\* ------------------------------------------------------------------ inputs
\* header labels the input csv may carry (one of them padded with a blank)
HeaderLabels == { <<"Surname">>, <<"GivenName">>, <<"Cc", " ">> }

\* raw data rows of the input csv, before trimming (the CC cell is left out:
\* no modelled step reads it)
RawRows ==
    { [Surname |-> <<"A">>,           GivenName |-> <<"A", " ", "A">>],
      [Surname |-> <<"A", " ", "A">>, GivenName |-> <<" ", "A">>],
      [Surname |-> <<" ">>,           GivenName |-> <<"A">>] }

RowSeqs == UNION { [1..n -> RawRows] : n \in 0..MaxInputRows }

\* content a previous run left in the combined file
PriorContent == << << <<"p", "r", "i", "o", "r">>, <<"r", "u", "n">> >> >>

\* columns of the query (cursor.description); a subset of the nine selected
col_names == << <<"Description">>, <<"SerialNo">>, <<"Surname">>, <<"GivenName">> >>

\* the k-th asset row of an employee; the first asset has a NULL description
AssetRow(k, given, sur) ==
    << IF k = 1 THEN None ELSE <<"h", "w">>, <<"S", "N", ToString(k)>>, sur, given >>

VARIABLES
    inputFile,              \* [fieldnames, rows] of INPUT_EMPLOYEES_CSV
    combined,               \* content of COMBINED_OUTPUT_PATH, or NoFile
    files,                  \* files under OUTPUT_DIR: path -> content
    pc,                     \* position in main()
    employees,              \* main(): employees
    idx,                    \* 1-based position of the for loop
    rows,                   \* main(): rows
    csv_path,               \* main(): csv_path
    xlsx_path,              \* main(): xlsx_path
    first_write_combined,   \* main(): first_write_combined
    total_written,          \* main(): total_written
    conn,                   \* "none", "open" or "closed"
    connects,               \* number of pyodbc.connect calls that returned
    fetched,                \* rows returned by fetchall(), per employee
    smtp,                   \* send attempts, in order
    stdout,                 \* what main() printed
    raised,                 \* exceptions raised in the loop (caught or not)
    removed,                \* os.remove(COMBINED_OUTPUT_PATH) was called and returned
    error                   \* the exception that left main(), or "none"

vars == << inputFile, combined, files, pc, employees, idx, rows, csv_path,
           xlsx_path, first_write_combined, total_written, conn, connects,
           fetched, smtp, stdout, raised, removed, error >>

\* ---------------------------------------------------------- read_employees
fieldnames(header) == { strip(h) : h \in header }

required == { <<"Surname">>, <<"GivenName">> }

missing(header) == required \ fieldnames(header)

cc_candidates == << <<"Email">>, <<"EmailAddress">>, <<"CC">>, <<"Cc">> >>

\* next((c for c in cc_candidates if c in fieldnames), None)
cc_col(header) ==
    LET hits == { k \in 1..Len(cc_candidates) : cc_candidates[k] \in fieldnames(header) }
    IN  IF hits = {} THEN None
        ELSE cc_candidates[CHOOSE k \in hits : \A j \in hits : k <= j]

\* mutant: the CC column is not required
SchemaErrorNamesOnly(header) == missing(header) # {}

\* the ValueError of lines 87-97
SchemaError(header) == missing(header) # {} \/ cc_col(header) = None

\* (row.get(key) or "").strip(): DictReader keys are the raw header labels
RowGet(header, row, key) ==
    IF key \in header THEN strip(row[key[1]]) ELSE strip(EmptyStr)

RECURSIVE ValidRows(_, _)
ValidRows(header, rs) ==
    IF rs = <<>> THEN <<>>
    ELSE LET sur == RowGet(header, Head(rs), <<"Surname">>)
             given == RowGet(header, Head(rs), <<"GivenName">>)
         IN  (IF given = EmptyStr \/ sur = EmptyStr THEN <<>> ELSE << <<given, sur>> >>)
             \o ValidRows(header, Tail(rs))

read_employees(file) == ValidRows(file.fieldnames, file.rows)

\* ------------------------------------------------------ build_recipient_email
build_recipient_email(given, sur, domain) ==
    delete(lower(given \o <<".">> \o sur), " ") \o <<"@">> \o domain

\* ---------------------------------------------------------- write_employee_csv
safe_name(given, sur) == replace(given \o <<"_">> \o sur, " ", "_")

CsvPath(given, sur) ==
    OUTPUT_DIR \o <<"/", "hardware_">> \o safe_name(given, sur) \o <<".csv">>

\* ["" if v is None else v for v in row]
CsvCells(row) == [k \in 1..Len(row) |-> IF row[k] = None THEN EmptyStr ELSE row[k]]

CsvLines(cols, rs) == <<cols>> \o [k \in 1..Len(rs) |-> CsvCells(rs[k])]

\* what open(path, mode) leaves to write after
Opened(file, mode) == IF mode = "w" \/ file = NoFile THEN <<>> ELSE file

\* contents a file may hold when writing `lines` to it raised an OSError
PartialWrites(file, mode, lines) ==
    {file} \cup { Opened(file, mode) \o SubSeq(lines, 1, k) : k \in 0..Len(lines) }

\* --------------------------------------------------------- convert_csv_to_xlsx
splitext(path) == SubSeq(path, 1, Len(path) - 1)

XlsxPath(path) == splitext(path) \o <<".xlsx">>

NaN == <<"<NaN>">>

\* pd.read_csv: the first line names the columns, an empty cell reads as NaN
read_csv(lines) ==
    [columns |-> Head(lines),
     data    |-> [k \in 1..(Len(lines) - 1) |->
                    [c \in 1..Len(lines[k + 1]) |->
                        IF lines[k + 1][c] = EmptyStr THEN NaN ELSE lines[k + 1][c]]]]

\* df.to_excel(sheet_name="Hardware", index=False): NaN is an empty cell
to_excel(df) ==
    [sheet   |-> "Hardware",
     columns |-> df.columns,
     data    |-> [k \in 1..Len(df.data) |->
                    [c \in 1..Len(df.data[k]) |->
                        IF df.data[k][c] = NaN THEN None ELSE df.data[k][c]]]]

\* ------------------------------------------------------ append_to_combined_csv
\* mutant: the file is always opened for appending
OpenModeAppend(first_write) == "a"

OpenMode(first_write) == IF first_write THEN "w" ELSE "a"

CombinedLines(cols, rs, first_write) ==
    (IF first_write THEN <<cols>> ELSE <<>>) \o [k \in 1..Len(rs) |-> CsvCells(rs[k])]

\* the file afterwards and the value returned
append_to_combined_csv(cols, rs, file, first_write) ==
    IF rs = <<>>
    THEN [file    |-> IF first_write THEN Opened(file, "w") \o <<cols>> ELSE file,
          written |-> 0]
    ELSE [file    |-> Opened(file, OpenMode(first_write))
                          \o CombinedLines(cols, rs, first_write),
          written |-> Len(rs)]

\* contents the combined file may hold when append_to_combined_csv raised
AppendFailures(cols, rs, file, first_write) ==
    IF rs = <<>>
    THEN IF first_write THEN PartialWrites(file, "w", <<cols>>) ELSE {}
    ELSE PartialWrites(file, OpenMode(first_write), CombinedLines(cols, rs, first_write))

\* mutant: the first-write flag is never cleared
NextFirstWriteStuck(written, first_write) == first_write

\* lines 312-313
NextFirstWrite(written, first_write) ==
    IF written > 0 /\ first_write THEN FALSE ELSE first_write

\* ------------------------------------------------------------ build_html_table
escChar(c) ==
    IF c = "&" THEN <<"&amp;">> ELSE IF c = "<" THEN <<"&lt;">>
    ELSE IF c = ">" THEN <<"&gt;">> ELSE <<c>>

esc(x) == IF x = None THEN EmptyStr ELSE Flatten([k \in 1..Len(x) |-> escChar(x[k])])

\* the table as its header cells followed by one sequence of cells per row
build_html_table(cols, rs) ==
    << [c \in 1..Len(cols) |-> esc(cols[c])] >>
        \o [k \in 1..Len(rs) |-> [c \in 1..Len(rs[k]) |-> esc(rs[k][c])]]

\* lines 317-365
TableHtml(cols, rs) == IF rs # <<>> THEN build_html_table(cols, rs) ELSE EmptyStr

\* mutant: one template for every employee
BodyTemplateAlwaysReturn(rs) == "return_equipment"

BodyTemplate(rs) == IF rs # <<>> THEN "return_equipment" ELSE "nothing_found"

body_html(given, sur, cols, rs) ==
    [template |-> BodyTemplate(rs),
     given    |-> given,
     sur      |-> sur,
     table    |-> IF BodyTemplate(rs) = "return_equipment"
                  THEN TableHtml(cols, rs) ELSE EmptyStr]   \* {table_html} is embedded in one template only

\* ------------------------------------------------------------------- main()
NoPath == <<>>

Init ==
    /\ inputFile \in [fieldnames : SUBSET HeaderLabels, rows : RowSeqs]
    /\ combined \in {NoFile, PriorContent}
    /\ files = << >>
    /\ pc = "start"
    /\ employees = <<>>
    /\ idx = 1
    /\ rows = <<>>
    /\ csv_path = NoPath
    /\ xlsx_path = NoPath
    /\ first_write_combined = TRUE
    /\ total_written = 0
    /\ conn = "none"
    /\ connects = 0
    /\ fetched = <<>>
    /\ smtp = <<>>
    /\ stdout = <<>>
    /\ raised = <<>>
    /\ removed = FALSE
    /\ error = "none"

\* mutant: the previous file is left in place
os_remove_kept(file) == file

\* os.remove(COMBINED_OUTPUT_PATH)
os_remove(file) == NoFile

\* mutant: the connection is not closed on the way out
FinallyLeak(c) == c

\* the finally clause of lines 383-384: conn.close()
Finally(c) == "closed"

\* mutant: the send is not wrapped in a try
CaughtNothing(exc) == FALSE

\* whether the except clause of line 375 catches an exception of the send
CaughtAtSend(exc) == TRUE

\* an exception `type`, raised at `stage` of the loop body outside the try
\* around the send, leaves the loop through the finally clause and main()
Propagate(type, stage) ==
    /\ raised' = Append(raised, [stage |-> stage, employee |-> idx])
    /\ error' = type
    /\ conn' = Finally(conn)
    /\ pc' = "exit"

\* lines 260-263: a schema error leaves main(); no employee returns early
LoadDirectives ==
    /\ pc = "start"
    /\ IF SchemaError(inputFile.fieldnames)
       THEN /\ error' = "ValueError"
            /\ pc' = "exit"
            /\ UNCHANGED <<employees, stdout>>
       ELSE /\ employees' = read_employees(inputFile)
            /\ IF employees' = <<>>
               THEN /\ stdout' = Append(stdout, [msg |-> "nothing_to_do", n |-> 0])
                    /\ pc' = "exit"
               ELSE /\ pc' = "remove_previous"
                    /\ UNCHANGED stdout
            /\ UNCHANGED error
    /\ UNCHANGED <<removed, inputFile, combined, files, idx, rows, csv_path, xlsx_path,
                   first_write_combined, total_written, conn, connects, fetched,
                   smtp, raised>>

\* lines 266-267
RemovePrevious ==
    /\ pc = "remove_previous"
    /\ IF combined # NoFile
       THEN \/ /\ combined' = os_remove(combined)
               /\ removed' = TRUE
               /\ pc' = "connect"
               /\ UNCHANGED error
            \/ /\ error' = "OSError"
               /\ pc' = "exit"
               /\ UNCHANGED <<combined, removed>>
       ELSE /\ pc' = "connect"
            /\ UNCHANGED <<combined, removed, error>>
    /\ UNCHANGED <<inputFile, files, employees, idx, rows, csv_path, xlsx_path,
                   first_write_combined, total_written, conn, connects, fetched,
                   smtp, stdout, raised>>

\* lines 291-296: pyodbc.connect returns or raises (before the try)
Connect ==
    /\ pc = "connect"
    /\ \/ /\ conn' = "open"
          /\ connects' = connects + 1
          /\ total_written' = 0
          /\ first_write_combined' = TRUE
          /\ pc' = "loop"
          /\ UNCHANGED error
       \/ /\ error' = "Error"
          /\ pc' = "exit"
          /\ UNCHANGED <<conn, connects, total_written, first_write_combined>>
    /\ UNCHANGED <<removed, inputFile, combined, files, employees, idx, rows, csv_path,
                   xlsx_path, fetched, smtp, stdout, raised>>

\* lines 298-302: the next employee's query returns rows or raises
Query ==
    /\ pc = "loop"
    /\ idx <= Len(employees)
    /\ \/ /\ \E n \in 0..MaxRows :
                rows' = [k \in 1..n |->
                            AssetRow(k, employees[idx][1], employees[idx][2])]
          /\ fetched' = Append(fetched, rows')
          /\ pc' = "write_csv"
          /\ UNCHANGED <<raised, error, conn>>
       \/ /\ Propagate("Error", "query")
          /\ UNCHANGED <<rows, fetched>>
    /\ UNCHANGED <<removed, inputFile, combined, files, employees, idx, csv_path, xlsx_path,
                   first_write_combined, total_written, connects, smtp, stdout>>

\* f with path p bound to content c
Put(f, p, c) == [q \in (DOMAIN f) \cup {p} |-> IF q = p THEN c ELSE f[q]]

Content(f, p) == IF p \in DOMAIN f THEN f[p] ELSE NoFile

\* line 305: write_employee_csv
WriteEmployeeCsv ==
    /\ pc = "write_csv"
    /\ LET given == employees[idx][1]
           sur == employees[idx][2]
           path == CsvPath(given, sur)
           lines == CsvLines(col_names, rows)
       IN  \/ /\ files' = Put(files, path, lines)
              /\ csv_path' = path
              /\ pc' = "convert_xlsx"
              /\ UNCHANGED <<raised, error, conn>>
           \/ /\ \E c \in PartialWrites(Content(files, path), "w", lines) :
                    files' = IF c = NoFile THEN files ELSE Put(files, path, c)
              /\ Propagate("OSError", "write_employee_csv")
              /\ UNCHANGED csv_path
    /\ UNCHANGED <<removed, inputFile, combined, employees, idx, rows, xlsx_path,
                   first_write_combined, total_written, connects, fetched, smtp,
                   stdout>>

\* line 308: convert_csv_to_xlsx
ConvertCsvToXlsx ==
    /\ pc = "convert_xlsx"
    /\ \/ /\ files' = Put(files, XlsxPath(csv_path), to_excel(read_csv(files[csv_path])))
          /\ xlsx_path' = XlsxPath(csv_path)
          /\ pc' = "append_combined"
          /\ UNCHANGED <<raised, error, conn>>
       \/ /\ Propagate("OSError", "convert_csv_to_xlsx")
          /\ UNCHANGED <<files, xlsx_path>>
    /\ UNCHANGED <<removed, inputFile, combined, employees, idx, rows, csv_path,
                   first_write_combined, total_written, connects, fetched, smtp,
                   stdout>>

\* lines 311-314: append_to_combined_csv and the run counters
AppendToCombined ==
    /\ pc = "append_combined"
    /\ \/ LET r == append_to_combined_csv(col_names, rows, combined,
                                          first_write_combined)
          IN  /\ combined' = r.file
              /\ first_write_combined' = NextFirstWrite(r.written, first_write_combined)
              /\ total_written' = total_written + r.written
              /\ pc' = "send"
              /\ UNCHANGED <<raised, error, conn>>
       \/ /\ \E c \in AppendFailures(col_names, rows, combined, first_write_combined) :
                combined' = c
          /\ Propagate("OSError", "append_to_combined_csv")
          /\ UNCHANGED <<first_write_combined, total_written>>
    /\ UNCHANGED <<removed, inputFile, files, employees, idx, rows, csv_path, xlsx_path,
                   connects, fetched, smtp, stdout>>

\* lines 317-376: the message is built and one send is attempted
Send ==
    /\ pc = "send"
    /\ LET given == employees[idx][1]
           sur == employees[idx][2]
           to_email == build_recipient_email(given, sur, RECIPIENT_DOMAIN)
           message == [employee   |-> idx,
                       to         |-> to_email,
                       body       |-> body_html(given, sur, col_names, rows),
                       attachment |-> xlsx_path,
                       payload    |-> files[xlsx_path]]
       IN  \/ /\ smtp' = Append(smtp, [message |-> message, sent |-> TRUE,
                                    table_html |-> TableHtml(col_names, rows)])
              /\ stdout' = Append(stdout, [msg |-> "sent", n |-> idx])
              /\ idx' = idx + 1
              /\ pc' = "loop"
              /\ UNCHANGED <<raised, error, conn>>
           \/ /\ smtp' = Append(smtp, [message |-> message, sent |-> FALSE,
                                    table_html |-> TableHtml(col_names, rows)])
              /\ IF CaughtAtSend("SMTPException")
                 THEN /\ raised' = Append(raised, [stage |-> "send", employee |-> idx])
                      /\ stdout' = Append(stdout, [msg |-> "error_sending", n |-> idx])
                      /\ idx' = idx + 1
                      /\ pc' = "loop"
                      /\ UNCHANGED <<error, conn>>
                 ELSE /\ Propagate("SMTPException", "send")
                      /\ UNCHANGED <<stdout, idx>>
    /\ UNCHANGED <<removed, inputFile, combined, files, employees, rows, csv_path, xlsx_path,
                   first_write_combined, total_written, connects, fetched>>

\* lines 378-384: the loop is over; the summary is printed, the finally closes
Summary ==
    /\ pc = "loop"
    /\ idx > Len(employees)
    /\ stdout' = Append(stdout,
                        IF total_written = 0
                        THEN [msg |-> "no_rows_matched", n |-> 0]
                        ELSE [msg |-> "saved", n |-> total_written])
    /\ conn' = Finally(conn)
    /\ pc' = "exit"
    /\ UNCHANGED <<removed, inputFile, combined, files, employees, idx, rows, csv_path,
                   xlsx_path, first_write_combined, total_written, connects,
                   fetched, smtp, raised, error>>

Next ==
    \/ LoadDirectives
    \/ RemovePrevious
    \/ Connect
    \/ Query
    \/ WriteEmployeeCsv
    \/ ConvertCsvToXlsx
    \/ AppendToCombined
    \/ Send
    \/ Summary

Spec == Init /\ [][Next]_vars

\* ======================================================================
\* Properties
\* ======================================================================
IsHeader(line) == line = col_names

DataLines(file) == IF file = NoFile THEN <<>> ELSE SelectSeq(file, LAMBDA l : ~IsHeader(l))

HeaderCount(file) ==
    IF file = NoFile THEN 0 ELSE Len(SelectSeq(file, IsHeader))

\* the csv lines of what the first k employees' queries returned, in input order
RECURSIVE FetchedLines(_)
FetchedLines(k) ==
    IF k = 0 THEN <<>>
    ELSE FetchedLines(k - 1) \o [r \in 1..Len(fetched[k]) |-> CsvCells(fetched[k][r])]

RECURSIVE FetchedCount(_)
FetchedCount(k) == IF k = 0 THEN 0 ELSE FetchedCount(k - 1) + Len(fetched[k])

\* main() returned from the loop's normal end (the summary was printed)
Completed == pc = "exit" /\ error = "none" /\ employees # <<>>

\* the number of employees whose append_to_combined_csv call has returned
Appended ==
    IF pc = "send" THEN idx
    ELSE IF pc = "loop" \/ Completed THEN idx - 1
    ELSE 0

HasPrior(file) ==
    file # NoFile /\ \E k \in 1..Len(file) : \E j \in 1..Len(PriorContent) : file[k] = PriorContent[j]

Attempts(j) == { m \in 1..Len(smtp) : smtp[m].message.employee = j }

Reported == \E k \in 1..Len(stdout) : stdout[k].msg \in {"no_rows_matched", "saved"}

MaterializeStages == {"write_employee_csv", "convert_csv_to_xlsx", "append_to_combined_csv"}

\* C1: once an employee's append has returned, the combined file is one header
\* line, first, followed by exactly the data rows of the employees appended so
\* far, in input order (so a zero-row employee's header-only write is never
\* followed by a second header); this holds in particular when the run completes.
C1_SingleHeaderThenRows ==
    Appended >= 1 =>
        /\ combined # NoFile
        /\ Head(combined) = col_names
        /\ HeaderCount(combined) = 1
        /\ Tail(combined) = FetchedLines(Appended)

\* three employees, only the second with rows, run completed
C1_Witness ==
    /\ Completed
    /\ Len(employees) = 3
    /\ fetched[1] = <<>> /\ fetched[2] # <<>> /\ fetched[3] = <<>>

\* C2: when the only exceptions raised in the loop are send failures, the run
\* ends without an exception, every employee's table and spreadsheet files
\* exist, its rows are in the combined file, it was sent to exactly once, in
\* input order, and it is reported as failed if its send raised, as sent if not.
C2_SendFailureIsolated ==
    (pc = "exit" /\ conn # "none"
        /\ \A k \in 1..Len(raised) : raised[k].stage = "send") =>
        /\ error = "none"
        /\ Len(smtp) = Len(employees)
        /\ Len(fetched) = Len(employees)
        /\ DataLines(combined) = FetchedLines(Len(employees))
        /\ \A i \in 1..Len(employees) :
              /\ CsvPath(employees[i][1], employees[i][2]) \in DOMAIN files
              /\ XlsxPath(CsvPath(employees[i][1], employees[i][2])) \in DOMAIN files
              /\ smtp[i].message.employee = i
              /\ stdout[i] = [msg |-> IF smtp[i].sent THEN "sent" ELSE "error_sending",
                              n   |-> i]
              /\ smtp[i].sent <=> ~(\E k \in 1..Len(raised) : raised[k].employee = i)

\* employee 2's send failed, 1 and 3 were sent
C2_Witness ==
    /\ pc = "exit"
    /\ Len(smtp) = 3
    /\ smtp[1].sent /\ ~smtp[2].sent /\ smtp[3].sent
    /\ Len(raised) = 1 /\ raised[1].stage = "send"

\* C3: a filesystem error raised while materializing one employee's report
\* does not abort the run: main() ends without an exception and every later
\* employee was still queried and sent to.
C3_MaterializationErrorIsolated ==
    pc = "exit" =>
        \A k \in 1..Len(raised) :
            raised[k].stage \in MaterializeStages =>
                /\ error = "none"
                /\ \A j \in (raised[k].employee + 1)..Len(employees) :
                      Len(fetched) >= j /\ Attempts(j) # {}

\* C4 as stated: whenever the directive load succeeded, the combined file holds
\* nothing of a prior run when the run ends.
C4_FreshStartWheneverLoaded ==
    (pc = "exit" /\ error # "ValueError") => ~HasPrior(combined)

\* C4 amended: when the load yields at least one employee, the prior file is
\* removed before the connection is opened, or the removal raises and the run
\* ends there with no employee processed; so from the connection on, and when
\* such a run ends, the combined file holds nothing of a prior run.  A run with
\* no valid employee returns without removing anything.
C4_FreshStartWhenEmployees ==
    /\ (pc \notin {"start", "remove_previous"} /\ employees # <<>>) =>
          \/ ~HasPrior(combined)
          \/ pc = "exit" /\ error = "OSError" /\ conn = "none" /\ ~removed
                /\ fetched = <<>> /\ smtp = <<>>
    /\ (pc = "exit" /\ error = "none" /\ employees = <<>>) => ~removed

\* a prior file was removed and the run completed
C4_Witness == Completed /\ removed /\ total_written > 0

\* C5: the connection is acquired at most once, and no run ends with it open,
\* whichever way the run ends.
C5_ConnectionClosed ==
    /\ connects <= 1
    /\ conn = "open" => connects = 1
    /\ conn # "none" => connects = 1
    /\ pc = "exit" => conn # "open"
    /\ (pc = "exit" /\ connects = 1) => conn = "closed"

\* a materialization error ended a run whose connection had been opened
C5_Witness ==
    /\ pc = "exit" /\ error = "OSError" /\ connects = 1 /\ conn = "closed"
    /\ raised[Len(raised)].stage \in MaterializeStages

\* C6: once the connection is established, the run ends having reported the
\* aggregate row count.
C6_AlwaysReports == (pc = "exit" /\ connects = 1) => Reported

\* the input header, trimmed, lacks a name column or every accepted CC column
LacksColumn ==
    LET labels == { strip(h) : h \in inputFile.fieldnames }
    IN  \/ <<"Surname">> \notin labels
        \/ <<"GivenName">> \notin labels
        \/ labels \cap { <<"Email">>, <<"EmailAddress">>, <<"CC">>, <<"Cc">> } = {}

\* C7: with a mandatory name column or every CC column missing, the run ends
\* with the schema error and nothing else happens: the combined file is not
\* removed, no connection is opened, no file is written, no send is attempted.
C7_SchemaErrorAbortsFirst ==
    LacksColumn =>
        /\ pc \in {"start", "exit"}
        /\ pc = "exit" => error = "ValueError"
        /\ ~removed
        /\ combined \in {NoFile, PriorContent}
        /\ conn = "none" /\ connects = 0
        /\ files = << >>
        /\ fetched = <<>> /\ smtp = <<>> /\ stdout = <<>>

\* the run aborted on a header that has both names and no CC column, with a
\* prior combined file in place
C7_Witness ==
    /\ pc = "exit" /\ error = "ValueError"
    /\ <<"Surname">> \in inputFile.fieldnames
    /\ <<"GivenName">> \in inputFile.fieldnames
    /\ combined = PriorContent
    /\ inputFile.rows # <<>>

HeaderOnlyWorkbook == [sheet |-> "Hardware", columns |-> col_names, data |-> <<>>]

\* C8: when an employee is about to be sent to, an employee with zero rows has
\* header-only table and spreadsheet files; every send attempt of a zero-row
\* employee has no preview table, the "nothing found" body and the header-only
\* spreadsheet attached; every attempt of an employee with rows has the "return
\* equipment" body with the preview table; each processed employee was sent to
\* exactly once.
C8_ZeroRowEmployee ==
    /\ (pc = "send" /\ rows = <<>>) =>
          /\ files[csv_path] = <<col_names>>
          /\ files[xlsx_path] = HeaderOnlyWorkbook
    /\ \A m \in 1..Len(smtp) :
          LET j == smtp[m].message.employee
              msg == smtp[m].message
          IN  /\ Cardinality(Attempts(j)) = 1
              /\ msg.attachment = XlsxPath(CsvPath(employees[j][1], employees[j][2]))
              /\ IF fetched[j] = <<>>
                 THEN /\ smtp[m].table_html = EmptyStr
                      /\ msg.body.template = "nothing_found"
                      /\ msg.body.table = EmptyStr
                      /\ msg.payload = HeaderOnlyWorkbook
                 ELSE /\ msg.body.template = "return_equipment"
                      /\ smtp[m].table_html # EmptyStr
                      /\ Len(smtp[m].table_html) = 1 + Len(fetched[j])
                      /\ msg.body.table = smtp[m].table_html
    /\ \A j \in 1..(idx - 1) : Cardinality(Attempts(j)) = 1

\* a zero-row employee and an employee with rows were both sent to
C8_Witness ==
    /\ Completed
    /\ \E a, b \in 1..Len(smtp) :
          /\ fetched[smtp[a].message.employee] = <<>>
          /\ fetched[smtp[b].message.employee] # <<>>
          /\ smtp[a].message.employee < smtp[b].message.employee

\* C9: after each append_to_combined_csv call, total_written is the number of
\* data rows in the combined file, which is the number of rows fetched so far
\* (nothing appended earlier was discarded); the total the summary reports is
\* the number of data rows in the file.
C9_TotalMatchesFile ==
    /\ Appended >= 1 =>
          /\ total_written = Len(DataLines(combined))
          /\ total_written = FetchedCount(Appended)
    /\ Completed =>
          /\ stdout[Len(stdout)].n = Len(DataLines(combined))
          /\ stdout[Len(stdout)].msg = IF total_written = 0 THEN "no_rows_matched" ELSE "saved"

\* a zero-row employee, then two employees with rows, run completed
C9_Witness ==
    /\ Completed
    /\ Len(employees) = 3
    /\ fetched[1] = <<>> /\ Len(fetched[2]) = 2 /\ Len(fetched[3]) = 1
    /\ total_written = 3

\* C10: employees with distinct identities have distinct table file paths, and
\* after a completed run each employee's table file holds only its own rows.
C10_DistinctFiles ==
    Completed =>
        \A i \in 1..Len(employees) :
            /\ \A j \in 1..Len(employees) :
                  employees[i] # employees[j] =>
                      CsvPath(employees[i][1], employees[i][2])
                          # CsvPath(employees[j][1], employees[j][2])
            /\ LET f == files[CsvPath(employees[i][1], employees[i][2])]
               IN  \A k \in 2..Len(f) :
                      f[k][4] = employees[i][1] /\ f[k][3] = employees[i][2]

====
